---- MODULE Spec2Model ----
(***************************************************************************)
(* Model of streamlit_claim_compare_app_v2 (src/main.py): the filename     *)
(* classifier, the column normalizer, the row preparer, the bucket store,  *)
(* the grouped aggregator, the month comparator, and the Streamlit script  *)
(* run (load, view, export) over one session.                              *)
(*                                                                         *)
(* Strings of the module are ASCII.  A filename is a sequence of           *)
(* characters; each Hangul syllable of the source is one character,        *)
(* written by its romanisation:                                            *)
(*   "ui" "sa" "byeol" = 의 사 별      "cheong" "gu" = 청 구                *)
(*   "wol" = 월                                                            *)
(* Column names and labels are whole strings, romanised the same way       *)
(* (the table is with RENAME_CANDIDATES below).                            *)
(***************************************************************************)
EXTENDS Integers, Sequences, FiniteSets, TLC

VARIABLES
    name, cls,                    \* classifier: a filename and what the upload loop made of it
    hdr_in, hdr, newcols, nnorm,  \* normalizer: the last call's input and output header rows,
                                  \* the renames it logged, the calls made
    prev_t, curr_t, cpc, g_prev, g_curr, out,   \* aggregator and comparator
    session_state, uploaded_files, pressed, buckets, LOGS, shown, pc, fi,
    view, sheets                  \* one Streamlit session: see the script run below

vars_cls == <<name, cls>>
vars_norm == <<hdr_in, hdr, newcols, nnorm>>
vars_cmp == <<prev_t, curr_t, cpc, g_prev, g_curr, out>>
vars_app == <<session_state, uploaded_files, pressed, buckets, LOGS, shown, pc, fi,
              view, sheets>>
vars == <<vars_cls, vars_norm, vars_cmp, vars_app>>

None == [none |-> TRUE]

(***************************************************************************)
(* Generic helpers.                                                        *)
(***************************************************************************)
Range(s) == {s[i] : i \in 1..Len(s)}

SetMax(S) == CHOOSE x \in S : \A y \in S : y <= x

SetMin(S) == CHOOSE x \in S : \A y \in S : x <= y

RECURSIVE Flatten(_)
Flatten(ss) == IF ss = <<>> THEN <<>> ELSE Head(ss) \o Flatten(Tail(ss))

\* "sub in s" of Python: sub occurs as a contiguous run of s.
Contains(s, sub) ==
    \E i \in 0..(Len(s) - Len(sub)) : \A k \in 1..Len(sub) : s[i + k] = sub[k]

(***************************************************************************)
(* Filename Classifier: MONTH_RE, _parse_month_from_name, _detect_kind.    *)
(***************************************************************************)
Digits == <<"0", "1", "2", "3", "4", "5", "6", "7", "8", "9">>

DigitChars == Range(Digits)

IsDigit(c) == c \in DigitChars

DigitVal(c) == (CHOOSE i \in 1..10 : Digits[i] = c) - 1

\* \s of the pattern, over the characters filenames are drawn from.
IsSpace(c) == c = " "

WOL == "wol"

\* str.lower(): only the Latin capitals have a lower-case form.
LowerCh(c) ==
    CASE c = "C" -> "c" [] c = "L" -> "l" [] c = "A" -> "a"
      [] c = "I" -> "i" [] c = "M" -> "m" [] OTHER -> c

Lower(s) == [i \in 1..Len(s) |-> LowerCh(s[i])]

\* \s*월 from position j: every blank is skipped, then the glyph must follow.
RECURSIVE SpacesThenWol(_, _)
SpacesThenWol(s, j) ==
    IF j > Len(s) THEN FALSE
    ELSE IF IsSpace(s[j]) THEN SpacesThenWol(s, j + 1)
    ELSE s[j] = WOL

\* (\d{1,2})\s*월 from position j: greedy, two digits are tried before one.
\* The value is group(1), or <<>> when the pattern does not match here.
DigitsAt(s, j) ==
    IF j + 1 <= Len(s) /\ IsDigit(s[j]) /\ IsDigit(s[j + 1]) /\ SpacesThenWol(s, j + 2)
    THEN <<s[j], s[j + 1]>>
    ELSE IF j <= Len(s) /\ IsDigit(s[j]) /\ SpacesThenWol(s, j + 1)
    THEN <<s[j]>>
    ELSE <<>>

\* The whole pattern tried at start position i (1-based): the alternative ^
\* first (only at the start of the string), then one non-digit character.
MatchAt(s, i) ==
    IF i = 1 /\ DigitsAt(s, 1) # <<>> THEN DigitsAt(s, 1)
    ELSE IF i <= Len(s) /\ ~IsDigit(s[i]) THEN DigitsAt(s, i + 1)
    ELSE <<>>

\* MONTH_RE.search: the match at the leftmost start position, <<>> for no match.
MONTH_RE_search(s) ==
    LET starts == {i \in 1..Len(s) : MatchAt(s, i) # <<>>}
    IN IF starts = {} THEN <<>> ELSE MatchAt(s, SetMin(starts))

\* int() of one or two digits.
IntOf(ds) == IF Len(ds) = 1 THEN DigitVal(ds[1]) ELSE 10 * DigitVal(ds[1]) + DigitVal(ds[2])

\* A month 1..12, or 0 for None.
_parse_month_from_name(s) ==
    LET m == MONTH_RE_search(s)
    IN IF m = <<>> THEN 0
       ELSE IF 1 <= IntOf(m) /\ IntOf(m) <= 12 THEN IntOf(m) ELSE 0

DOCTOR_MARK == <<"ui", "sa", "byeol">>
CLAIM_MARK == <<"cheong", "gu">>
CLAIMBY_MARK == <<"cheong", "gu", "byeol">>
LATIN_MARK == <<"c", "l", "a", "i", "m">>

\* _detect_kind with the two tests in the other order.
DetectKindClaimFirst(s) ==
    IF Contains(s, CLAIMBY_MARK) \/ Contains(s, CLAIM_MARK)
       \/ Contains(Lower(s), LATIN_MARK) THEN "claim"
    ELSE IF Contains(s, DOCTOR_MARK) THEN "doctor"
    ELSE ""

\* "doctor", "claim", or "" for None.
_detect_kind(s) ==
    IF Contains(s, DOCTOR_MARK) THEN "doctor"
    ELSE IF Contains(s, CLAIMBY_MARK) \/ Contains(s, CLAIM_MARK)
            \/ Contains(Lower(s), LATIN_MARK) THEN "claim"
    ELSE ""

\* Lines 235-240 of the upload loop: the file is taken only with both parts.
Classify(s) ==
    LET kind == _detect_kind(s)
        month == _parse_month_from_name(s)
    IN IF kind = "" \/ month = 0 THEN None ELSE [kind |-> kind, month |-> month]

(***************************************************************************)
(* Column Normalizer: RENAME_CANDIDATES, normalize_columns.                *)
(*   boheomyuhyeong = 보험유형   ibwon/oerae = 입원/외래                     *)
(*   cheongguchasu = 청구차수    boninbudamsanghanchogwa = 본인부담상한초과  *)
(*   cheongguaek = 청구액        jiwongeum = 지원금                          *)
(*   jangaeinuiryobi = 장애인의료비   bohuncheongguaek = 보훈청구액          *)
(*   bohungammyeonaek = 보훈감면액                                          *)
(*   100/100mimanbohuncheonggu = 100/100미만보훈청구                        *)
(* An alias keeps the blank, hyphen or underscore of its source spelling.  *)
(***************************************************************************)
RENAME_CANDIDATES ==
    << [target |-> "boheomyuhyeong",
        aliases |-> <<"boheomyuhyeong", "boheom gubun", "boheomgubun", "boheom-gubun",
                      "boheom_gubun", "boheomjongnyu">>],
       [target |-> "ibwon/oerae",
        aliases |-> <<"ibwon/oerae", "ip/oe", "ibwonoerae", "ibwon_oerae",
                      "ibwon . oerae", "ibwon-oerae">>],
       [target |-> "cheongguchasu",
        aliases |-> <<"cheongguchasu", "cheonggu chasu", "cheonggu_chasu",
                      "cheonggu-chasu">>],
       [target |-> "boninbudamsanghanchogwa",
        aliases |-> <<"boninbudamsanghanchogwa", "boninbudam sanghanchogwa",
                      "boninbudam-sanghanchogwa">>],
       [target |-> "cheongguaek",
        aliases |-> <<"cheongguaek", "chongcheongguaek", "cheonggu geumaek",
                      "cheonggu-geumaek">>],
       [target |-> "jiwongeum", aliases |-> <<"jiwongeum", "jiwon geumaek">>],
       [target |-> "jangaeinuiryobi",
        aliases |-> <<"jangaeinuiryobi", "jangaein uiryobi">>],
       [target |-> "bohuncheongguaek",
        aliases |-> <<"bohuncheongguaek", "bohun cheongguaek">>],
       [target |-> "bohungammyeonaek",
        aliases |-> <<"bohungammyeonaek", "bohun gammyeonaek">>],
       [target |-> "100/100mimanbohuncheonggu",
        aliases |-> <<"100/100mimanbohuncheonggu", "100/100 miman bohuncheonggu",
                      "100/100miman bohuncheonggu">>] >>

\* The headers of the model that carry surrounding blanks, with what
\* str.strip() makes of each; every other header is already trimmed.
PaddedHeaders == << <<" cheongguaek", "cheongguaek">>, <<"boheomgubun ", "boheomgubun">> >>

Strip(c) ==
    IF \E i \in 1..Len(PaddedHeaders) : PaddedHeaders[i][1] = c
    THEN PaddedHeaders[CHOOSE i \in 1..Len(PaddedHeaders) : PaddedHeaders[i][1] = c][2]
    ELSE c

\* The inner loop without its break: the last alias found wins.
LastAlias(rc, cols) ==
    LET hits == {k \in 1..Len(rc.aliases) :
                    rc.aliases[k] \in Range(cols) /\ rc.target \notin Range(cols)}
    IN IF hits = {} THEN 0 ELSE SetMax(hits)

\* The inner loop with its break: the first alias of the list that is a
\* column, provided the target is not a column; 0 when nothing is renamed.
FirstAlias(rc, cols) ==
    LET hits == {k \in 1..Len(rc.aliases) :
                    rc.aliases[k] \in Range(cols) /\ rc.target \notin Range(cols)}
    IN IF hits = {} THEN 0 ELSE SetMin(hits)

\* newcols of normalize_columns over the stripped columns: alias -> target pairs.
RenameMap(cols) ==
    { <<RENAME_CANDIDATES[t].aliases[FirstAlias(RENAME_CANDIDATES[t], cols)],
        RENAME_CANDIDATES[t].target>> :
        t \in {u \in 1..Len(RENAME_CANDIDATES) : FirstAlias(RENAME_CANDIDATES[u], cols) # 0} }

\* df.rename(columns=newcols) on one column name.
Renamed(c, m) == IF \E p \in m : p[1] = c THEN (CHOOSE p \in m : p[1] = c)[2] ELSE c

\* normalize_columns on a header row: the new header row and the renames
\* it logs (the log line is written only when newcols is not empty).
normalize_columns(cols) ==
    LET stripped == [i \in 1..Len(cols) |-> Strip(cols[i])]
        m == RenameMap(stripped)
    IN [cols |-> [i \in 1..Len(cols) |-> Renamed(stripped[i], m)], newcols |-> m]

(***************************************************************************)
(* Tables.  A table read from a workbook (dtype=str) is positional:        *)
(*   [cols |-> header row, rows |-> sequence of rows, a row a sequence of  *)
(*    cells].  A cell of a category column is Str(label) or NaN (blank); a *)
(*   cell of a monetary column is its text, a sequence of characters, and  *)
(*   <<>> when blank.                                                      *)
(* A DataFrame held by the script is keyed:                                *)
(*   [cols |-> set of column names, rows |-> sequence of rows, a row a     *)
(*    function from column names to cells]; a column of cols that is not   *)
(*   in a row's domain holds NaN in that row (pd.concat of unlike frames). *)
(***************************************************************************)
Str(x) == [s |-> x]

NaN == [nan |-> TRUE]

\* The integer 0 that DataFrame.fillna(0) writes into a category cell.
Num(x) == [n |-> x]

SUM_COLS ==
    <<"boninbudamsanghanchogwa", "cheongguaek", "jiwongeum", "jangaeinuiryobi",
      "bohuncheongguaek", "bohungammyeonaek", "100/100mimanbohuncheonggu">>

\* "__합산청구액__"
AGG == "__hapsancheongguaek__"

\* "미지정"
UNSPECIFIED == "mijijeong"

RECURSIVE SumSeq(_)
SumSeq(q) == IF q = <<>> THEN 0 ELSE Head(q) + SumSeq(Tail(q))

RECURSIVE DigitsValue(_)
DigitsValue(t) ==
    IF t = <<>> THEN 0 ELSE 10 * DigitsValue(SubSeq(t, 1, Len(t) - 1)) + DigitVal(t[Len(t)])

IsComma(c) == c = ","

NotComma(c) == ~IsComma(c)

AllDigits(t) == t # <<>> /\ \A i \in 1..Len(t) : IsDigit(t[i])

\* _coerce_numeric on one cell: commas are removed, the text is parsed, and
\* whatever does not parse (a blank cell reads "nan") becomes 0.  The cell
\* texts of the model are made of digits, commas, a sign and letters.
_coerce_numeric(t) ==
    LET u == SelectSeq(t, NotComma)
    IN IF AllDigits(u) THEN DigitsValue(u)
       ELSE IF u # <<>> /\ Head(u) = "-" /\ AllDigits(Tail(u)) THEN 0 - DigitsValue(Tail(u))
       ELSE 0

ColIndex(cols, c) == CHOOSE i \in 1..Len(cols) : cols[i] = c

Count(cols, c) == Cardinality({i \in 1..Len(cols) : cols[i] = c})

\* One row of _prepare_df over the normalized header row cols: missing
\* monetary columns are 0, present ones are coerced, the aggregate is
\* their sum; every other column keeps its cell.
PrepareRow(cols, r) ==
    LET money == [c \in Range(SUM_COLS) |->
                    IF c \in Range(cols) THEN _coerce_numeric(r[ColIndex(cols, c)]) ELSE 0]
    IN [c \in Range(cols) \cup Range(SUM_COLS) \cup {AGG} |->
            IF c = AGG THEN SumSeq([i \in 1..Len(SUM_COLS) |-> money[SUM_COLS[i]]])
            ELSE IF c \in Range(SUM_COLS) THEN money[c]
            ELSE r[ColIndex(cols, c)]]

\* _prepare_df.  Two columns of one monetary name (headers that differ only
\* by surrounding blanks) make df[c] a frame, and _coerce_numeric raises on
\* it.  The raw tables of the model repeat no other header.
_prepare_df(raw) ==
    LET nc == normalize_columns(raw.cols)
    IN IF \E c \in Range(SUM_COLS) : Count(nc.cols, c) > 1
       THEN [ok |-> FALSE, newcols |-> nc.newcols]
       ELSE [ok |-> TRUE, newcols |-> nc.newcols,
             df |-> [cols |-> Range(nc.cols) \cup Range(SUM_COLS) \cup {AGG},
                     rows |-> [i \in 1..Len(raw.rows) |-> PrepareRow(nc.cols, raw.rows[i])]]]

EmptyFrame == [cols |-> {}, rows |-> <<>>]

\* DataFrame.empty
IsEmpty(df) == df.cols = {} \/ df.rows = <<>>

\* _concat_same_month
_concat_same_month(dfs) ==
    IF dfs = <<>> THEN EmptyFrame
    ELSE [cols |-> UNION {dfs[i].cols : i \in 1..Len(dfs)},
          rows |-> Flatten([i \in 1..Len(dfs) |-> dfs[i].rows])]

(***************************************************************************)
(* Grouped Aggregator and Month Comparator: _group_sum, _compare.          *)
(* Labels:  1cha 2cha 3cha = 1차 2차 3차   geongangboheom = 건강보험         *)
(*   uiryogeubyeo = 의료급여   jadongchaboheom = 자동차보험                  *)
(*   ibwon = 입원   oerae = 외래   gubun = 구분 (the category column)        *)
(***************************************************************************)
\* The labels of the model in the order of Python's string comparison
\* (code points of the source spelling).
LABEL_ORDER ==
    <<"1cha", "2cha", "3cha", "geongangboheom", "mijijeong", "oerae", "uiryogeubyeo",
      "ibwon", "jadongchaboheom">>

IsStr(l) == "s" \in DOMAIN l

IsNum(l) == "n" \in DOMAIN l

\* Sort key: numbers (only 0 occurs) first, strings in LABEL_ORDER, NaN last.
LabelRank(l) ==
    IF IsNum(l) THEN 0
    ELSE IF IsStr(l) THEN CHOOSE i \in 1..Len(LABEL_ORDER) : LABEL_ORDER[i] = l.s
    ELSE Len(LABEL_ORDER) + 1

RECURSIVE SortLabels(_)
SortLabels(S) ==
    IF S = {} THEN <<>>
    ELSE LET m == CHOOSE x \in S : \A y \in S : LabelRank(x) <= LabelRank(y)
         IN <<m>> \o SortLabels(S \ {m})

\* _group_sum.  A missing grouping column is replaced by the one label
\* UNSPECIFIED (with a warning); the aggregate column is then selected,
\* which raises KeyError when the frame has none; groupby(dropna=False)
\* keeps blank as a group of its own, and sum() skips NaN.
_group_sum(df, by_col) ==
    LET warn == by_col \notin df.cols
        key(r) == IF warn THEN Str(UNSPECIFIED)
                  ELSE IF by_col \in DOMAIN r THEN r[by_col] ELSE NaN
        amt(r) == IF AGG \in DOMAIN r THEN r[AGG] ELSE 0
        keys == {key(df.rows[i]) : i \in 1..Len(df.rows)}
        total(k) == SumSeq([i \in 1..Len(df.rows) |->
                              IF key(df.rows[i]) = k THEN amt(df.rows[i]) ELSE 0])
        order == SortLabels(keys)
    IN IF AGG \notin df.cols THEN [ok |-> FALSE, warn |-> warn]
       ELSE [ok |-> TRUE, warn |-> warn,
             g |-> [i \in 1..Len(order) |-> [gubun |-> order[i], amt |-> total(order[i])]]]

\* Glyphs of the marker column: "v" = the down triangle, "^" = the up
\* triangle, "--" = the dash.
DOWN_TRIANGLE == "v"
UP_TRIANGLE == "^"
DASH == "--"

RECURSIVE DigitsOf(_)
DigitsOf(x) == IF x < 10 THEN <<Digits[x + 1]>> ELSE DigitsOf(x \div 10) \o <<Digits[(x % 10) + 1]>>

\* The format spec ",": a comma before every group of three digits.
RECURSIVE Grouped(_)
Grouped(ds) ==
    IF Len(ds) <= 3 THEN ds
    ELSE Grouped(SubSeq(ds, 1, Len(ds) - 3)) \o <<",">> \o SubSeq(ds, Len(ds) - 2, Len(ds))

Abs(x) == IF x < 0 THEN 0 - x ELSE x

\* fmt with the two triangles the other way round.
FmtSwapped(delta) ==
    IF delta > 0 THEN <<UP_TRIANGLE>> \o Grouped(DigitsOf(Abs(delta)))
    ELSE IF delta < 0 THEN <<DOWN_TRIANGLE>> \o Grouped(DigitsOf(Abs(delta)))
    ELSE <<DASH>>

\* fmt of _compare.
fmt(delta) ==
    IF delta > 0 THEN <<DOWN_TRIANGLE>> \o Grouped(DigitsOf(Abs(delta)))
    ELSE IF delta < 0 THEN <<UP_TRIANGLE>> \o Grouped(DigitsOf(Abs(delta)))
    ELSE <<DASH>>

AmountOf(g, k) ==
    IF \E i \in 1..Len(g) : g[i].gubun = k
    THEN g[CHOOSE i \in 1..Len(g) : g[i].gubun = k].amt
    ELSE 0

\* fillna(0) on the category column.
FillLabel(l) == IF l = NaN THEN Num(0) ELSE l

\* _compare: outer merge on the category (blank matches blank), fillna(0)
\* over every column, the difference and its marker, then sort_values on the
\* category, which raises TypeError when it has to order 0 against a string.
_compare(prev_df, curr_df) ==
    LET keys == {prev_df[i].gubun : i \in 1..Len(prev_df)}
                  \cup {curr_df[i].gubun : i \in 1..Len(curr_df)}
        row(k) == [gubun |-> FillLabel(k),
                   prev |-> AmountOf(prev_df, k),
                   curr |-> AmountOf(curr_df, k),
                   marker |-> fmt(AmountOf(curr_df, k) - AmountOf(prev_df, k)),
                   delta |-> AmountOf(curr_df, k) - AmountOf(prev_df, k)]
        filled == {FillLabel(k) : k \in keys}
        order == SortLabels(filled)
        byLabel(l) == row(CHOOSE k \in keys : FillLabel(k) = l)
    IN IF (\E l \in filled : IsNum(l)) /\ (\E l \in filled : IsStr(l))
       THEN [ok |-> FALSE]
       ELSE [ok |-> TRUE, rows |-> [i \in 1..Len(order) |-> byLabel(order[i])]]

(***************************************************************************)
(* SpecClassify: the upload loop's decision on one filename.  Filenames    *)
(* are made of at most MaxPieces pieces of NamePieces.                     *)
(***************************************************************************)
MaxPieces == 5

NamePieces ==
    << DOCTOR_MARK, CLAIM_MARK, <<"C", "l", "A", "i", "m">>,
       <<"0">>, <<"1">>, <<"2">>, <<"3">>, <<" ">>, <<WOL>> >>

NameOf(f) == Flatten([i \in DOMAIN f |-> NamePieces[f[i]]])

InitClassify ==
    /\ \E n \in 0..MaxPieces : \E f \in [1..n -> 1..Len(NamePieces)] : name = NameOf(f)
    /\ cls = [st |-> "new"]

\* if not kind or not month: log, warn, continue.
SkipFile ==
    /\ cls.st = "new"
    /\ Classify(name) = None
    /\ cls' = [st |-> "skipped"]
    /\ UNCHANGED <<name, vars_norm, vars_cmp, vars_app>>

\* Otherwise the file goes on to be read for bucket (kind, month).
AcceptFile ==
    /\ cls.st = "new"
    /\ Classify(name) # None
    /\ cls' = [st |-> "accepted", kind |-> Classify(name).kind,
               month |-> Classify(name).month]
    /\ UNCHANGED <<name, vars_norm, vars_cmp, vars_app>>

(***************************************************************************)
(* SpecNormalize: normalize_columns called again and again on a header     *)
(* row of at most MaxCols distinct trimmed headers.  normalize_columns     *)
(* never reads the order of the columns, so the rows are taken in the      *)
(* order of HeaderUniverse.                                                *)
(***************************************************************************)
MaxCols == 3

MaxNorm == 2

\* Every spelling of the synonym table, and one column it does not know
\* ("gita" = 기타).
HeaderUniverse ==
    Flatten([t \in 1..Len(RENAME_CANDIDATES) |-> RENAME_CANDIDATES[t].aliases]) \o <<"gita">>

RECURSIVE IncreasingSeqs(_)
IncreasingSeqs(n) ==
    IF n = 0 THEN {<<>>}
    ELSE UNION { {Append(q, i) :
                    i \in ((IF q = <<>> THEN 0 ELSE q[Len(q)]) + 1)..Len(HeaderUniverse)} :
                 q \in IncreasingSeqs(n - 1) }

HeaderRow(q) == [i \in DOMAIN q |-> HeaderUniverse[q[i]]]

InitNormalize ==
    /\ \E n \in 0..MaxCols : \E q \in IncreasingSeqs(n) : hdr = HeaderRow(q)
    /\ hdr_in = hdr
    /\ newcols = {}
    /\ nnorm = 0

Normalize ==
    /\ nnorm < MaxNorm
    /\ hdr_in' = hdr
    /\ hdr' = normalize_columns(hdr).cols
    /\ newcols' = normalize_columns(hdr).newcols
    /\ nnorm' = nnorm + 1
    /\ UNCHANGED <<vars_cls, vars_cmp, vars_app>>

(***************************************************************************)
(* SpecCompare: _group_sum on a prior and a current frame, then _compare.  *)
(* The frames have the grouping column "cheongguchasu" and the aggregate   *)
(* column, and between 1 and MaxRows rows.                                 *)
(***************************************************************************)
MaxRows == 2

CmpLabels == {Str("1cha"), Str("2cha"), NaN}

CmpAmounts == {999, 1234567}

CmpRows == {[c \in {"cheongguchasu", AGG} |-> IF c = AGG THEN a ELSE l] :
              l \in CmpLabels, a \in CmpAmounts}

CmpFrame(r) == [cols |-> {"cheongguchasu", AGG}, rows |-> r]

InitCompare ==
    /\ \E n \in 1..MaxRows : \E r \in [1..n -> CmpRows] : prev_t = CmpFrame(r)
    /\ \E n \in 1..MaxRows : \E r \in [1..n -> CmpRows] : curr_t = CmpFrame(r)
    /\ cpc = "start"
    /\ g_prev = <<>>
    /\ g_curr = <<>>
    /\ out = None

GroupBoth ==
    /\ cpc = "start"
    /\ g_prev' = _group_sum(prev_t, "cheongguchasu").g
    /\ g_curr' = _group_sum(curr_t, "cheongguchasu").g
    /\ cpc' = "grouped"
    /\ UNCHANGED <<prev_t, curr_t, out, vars_cls, vars_norm, vars_app>>

Compare ==
    /\ cpc = "grouped"
    /\ out' = _compare(g_prev, g_curr)
    /\ cpc' = "done"
    /\ UNCHANGED <<prev_t, curr_t, g_prev, g_curr, vars_cls, vars_norm, vars_app>>

(***************************************************************************)
(* The Streamlit script.  Every interaction of the user reruns the script  *)
(* from top to bottom; st.session_state alone survives from run to run.    *)
(*   session_state   keys "dummy", "out_doc", "out_ins", "out_io" (with    *)
(*                   their "_months"); None for a key that is not set      *)
(*   uploaded_files  the uploader's files, each [name, blob]               *)
(*   pressed         the button that is True in this run                   *)
(*   buckets         kind -> month -> list of frames (<<>>: no such key)   *)
(*   LOGS            the log lines of this run, [tag, file]                *)
(*   shown           what this run displayed (st.info, st.warning, ...)    *)
(*   pc, fi          position in the script, index in the upload loop      *)
(*   view            what the two selection panels computed in this run    *)
(*   sheets          the worksheets of the workbook offered for download   *)
(***************************************************************************)
KINDS == {"doctor", "claim"}

MONTHS == 1..12

EmptyBuckets == [k \in KINDS |-> [m \in MONTHS |-> <<>>]]

\* Text of a monetary cell, character by character.
T_1200 == <<"1", ",", "2", "0", "0">>
T_800 == <<"8", "0", "0">>
T_1500 == <<"1", "5", "0", "0">>
T_900 == <<"9", "0", "0">>
T_300 == <<"3", "0", "0">>
T_na == <<"n", "/", "a">>

\* What an uploaded blob holds: a workbook whose first sheet is a table, or
\* bytes that openpyxl cannot open.
NotAWorkbook == [xlsx |-> FALSE, cols |-> <<>>, rows |-> <<>>]

Workbook(cols, rows) == [xlsx |-> TRUE, cols |-> cols, rows |-> rows]

WB_doc_a ==
    Workbook(<<"cheongguchasu", "chongcheongguaek">>,
             << <<Str("1cha"), T_1200>>, <<Str("2cha"), T_800>> >>)

WB_doc_b ==
    Workbook(<<"cheonggu chasu", " cheongguaek", "jiwongeum">>,
             << <<Str("1cha"), T_1500, T_na>>, <<Str("3cha"), T_300, <<>> >> >>)

\* " cheongguaek" and "cheongguaek" are one column name once stripped.
WB_doc_dup ==
    Workbook(<<"cheongguchasu", " cheongguaek", "cheongguaek">>,
             << <<Str("1cha"), T_900, T_900>> >>)

WB_claim_c ==
    Workbook(<<"boheomgubun ", "ip/oe", "cheongguaek">>,
             << <<Str("geongangboheom"), Str("ibwon"), T_900>>,
                <<Str("uiryogeubyeo"), Str("oerae"), T_300>> >>)

\* The second row has no inpatient/outpatient value.
WB_claim_n ==
    Workbook(<<"boheomyuhyeong", "ibwon/oerae", "cheongguaek">>,
             << <<Str("geongangboheom"), Str("ibwon"), T_1200>>,
                <<Str("uiryogeubyeo"), NaN, T_300>> >>)

\* A sheet with a header row and no data row.
WB_claim_empty == Workbook(<<"boheomyuhyeong", "ibwon/oerae", "cheongguaek">>, <<>>)

Catalog ==
    << [name |-> DOCTOR_MARK \o <<"_", "7", WOL>>, blob |-> WB_doc_a],
       [name |-> DOCTOR_MARK \o <<"_", "9", WOL>>, blob |-> WB_doc_b],
       [name |-> DOCTOR_MARK \o <<"_", "8", WOL>>, blob |-> NotAWorkbook],
       [name |-> DOCTOR_MARK \o <<"_", "0", "9", " ", WOL>>, blob |-> WB_doc_dup],
       [name |-> CLAIMBY_MARK \o <<"_", "9", WOL>>, blob |-> WB_claim_c],
       [name |-> CLAIM_MARK \o <<"_", "8", WOL>>, blob |-> WB_claim_empty],
       [name |-> CLAIM_MARK \o <<"_", "1", "0", WOL>>, blob |-> WB_claim_n],
       [name |-> <<"C", "L", "A", "I", "M", "_", "1", "3", WOL>>, blob |-> WB_doc_a] >>

MaxFiles == 2

\* seq without its i-th element
RemoveAt(q, i) == SubSeq(q, 1, i - 1) \o SubSeq(q, i + 1, Len(q))

\* The frames of the demo button (lines 61-102): no __합산청구액__ column.
DummyRow(labels, amount) ==
    [c \in DOMAIN labels \cup Range(SUM_COLS) |->
        IF c \in DOMAIN labels THEN labels[c]
        ELSE IF c = "cheongguaek" THEN amount ELSE 0]

DummyFrame(rows) == [cols |-> DOMAIN rows[1], rows |-> rows]

DocLabels(l) == [c \in {"cheongguchasu"} |-> Str(l)]

ClaimLabels(ins, io) ==
    [c \in {"boheomyuhyeong", "ibwon/oerae"} |->
        IF c = "boheomyuhyeong" THEN Str(ins) ELSE Str(io)]

df_doc_8 ==
    DummyFrame(<<DummyRow(DocLabels("1cha"), 1000000), DummyRow(DocLabels("2cha"), 800000),
                 DummyRow(DocLabels("3cha"), 500000)>>)

df_doc_9 ==
    DummyFrame(<<DummyRow(DocLabels("1cha"), 1100000), DummyRow(DocLabels("2cha"), 700000),
                 DummyRow(DocLabels("3cha"), 600000)>>)

df_claim_8 ==
    DummyFrame(<<DummyRow(ClaimLabels("geongangboheom", "ibwon"), 900000),
                 DummyRow(ClaimLabels("uiryogeubyeo", "oerae"), 300000),
                 DummyRow(ClaimLabels("jadongchaboheom", "oerae"), 200000)>>)

df_claim_9 ==
    DummyFrame(<<DummyRow(ClaimLabels("geongangboheom", "ibwon"), 950000),
                 DummyRow(ClaimLabels("uiryogeubyeo", "oerae"), 350000),
                 DummyRow(ClaimLabels("jadongchaboheom", "oerae"), 150000)>>)

\* st.session_state["dummy"]
DUMMY ==
    [k \in KINDS |-> [m \in MONTHS |->
        IF k = "doctor" /\ m = 8 THEN <<df_doc_8>>
        ELSE IF k = "doctor" /\ m = 9 THEN <<df_doc_9>>
        ELSE IF k = "claim" /\ m = 8 THEN <<df_claim_8>>
        ELSE IF k = "claim" /\ m = 9 THEN <<df_claim_9>>
        ELSE <<>>]]

MonthsOf(b, kind) == {m \in MONTHS : b[kind][m] # <<>>}

\* buckets[kind].get(m, []), with m = 0 for None
Get(b, kind, m) == IF m \in MONTHS THEN b[kind][m] ELSE <<>>

Log(tag, file) == [tag |-> tag, file |-> file]

NoView ==
    [doctor_months |-> {}, curr_default_doc |-> 0, curr_doctor |-> 0, prev_doctor |-> 0,
     claim_months |-> {}, curr_default_claim |-> 0, curr_claim |-> 0, prev_claim |-> 0]

NoSession == [dummy |-> FALSE, out_doc |-> None, out_ins |-> None, out_io |-> None]

\* The state the first run of the script (no file, no button) leaves.
InitApp ==
    /\ session_state = NoSession
    /\ uploaded_files = <<>>
    /\ pressed = "none"
    /\ buckets = EmptyBuckets
    /\ LOGS = <<>>
    /\ shown = {"info: no doctor file", "info: no claim file", "info: nothing to export"}
    /\ pc = "idle"
    /\ fi = 1
    /\ view = NoView
    /\ sheets = {}

IdleClassify == name = <<>> /\ cls = [st |-> "idle"]

IdleNormalize == hdr_in = <<>> /\ hdr = <<>> /\ newcols = {} /\ nnorm = 0

IdleCompare ==
    /\ prev_t = EmptyFrame /\ curr_t = EmptyFrame /\ cpc = "idle"
    /\ g_prev = <<>> /\ g_curr = <<>> /\ out = None

IdleApp ==
    /\ session_state = NoSession /\ uploaded_files = <<>> /\ pressed = "none"
    /\ buckets = EmptyBuckets /\ LOGS = <<>> /\ shown = {} /\ pc = "off" /\ fi = 1
    /\ view = NoView /\ sheets = {}

\* The buttons the last run rendered: the demo button always, a comparison
\* button only in a panel that had months to show.
Rendered ==
    {"dummy"} \cup (IF MonthsOf(buckets, "doctor") # {} THEN {"doc"} ELSE {})
              \cup (IF MonthsOf(buckets, "claim") # {} THEN {"ins", "io"} ELSE {})

\* One interaction of the user, after which the script reruns: a file of
\* the catalog is added to the uploader (it holds at most MaxFiles, no file
\* twice) or removed from it, a rendered button is pressed, or another
\* widget is touched (a select box, the download button).
\* Lines 25 and 222: LOGS and buckets start empty in every run.
Rerun ==
    /\ pc = "idle"
    /\ \/ /\ Len(uploaded_files) < MaxFiles
          /\ \E i \in 1..Len(Catalog) :
                /\ Catalog[i] \notin Range(uploaded_files)
                /\ uploaded_files' = Append(uploaded_files, Catalog[i])
          /\ pressed' = "none"
       \/ /\ \E i \in 1..Len(uploaded_files) : uploaded_files' = RemoveAt(uploaded_files, i)
          /\ pressed' = "none"
       \/ pressed' \in Rendered /\ UNCHANGED uploaded_files
       \/ pressed' = "none" /\ UNCHANGED uploaded_files
    /\ LOGS' = <<>>
    /\ shown' = {}
    /\ buckets' = EmptyBuckets
    /\ fi' = 1
    /\ view' = NoView
    /\ sheets' = {}
    /\ pc' = "dummy_button"
    /\ UNCHANGED <<session_state, vars_cls, vars_norm, vars_cmp>>

\* Lines 59-108: the demo button stores the four demo frames in the session.
DummyButton ==
    /\ pc = "dummy_button"
    /\ IF pressed = "dummy"
       THEN /\ session_state' = [session_state EXCEPT !.dummy = TRUE]
            /\ shown' = shown \cup {"success: dummy loaded"}
       ELSE UNCHANGED <<session_state, shown>>
    /\ pc' = "load_dummy"
    /\ UNCHANGED <<uploaded_files, pressed, buckets, LOGS, fi, view, sheets,
                   vars_cls, vars_norm, vars_cmp>>

\* Lines 224-229: the session's demo frames are put in the buckets as they are.
LoadDummy ==
    /\ pc = "load_dummy"
    /\ IF session_state.dummy
       THEN /\ buckets' = [k \in KINDS |-> [m \in MONTHS |-> buckets[k][m] \o DUMMY[k][m]]]
            /\ LOGS' = Append(LOGS, Log("dummy joined", <<>>))
       ELSE UNCHANGED <<buckets, LOGS>>
    /\ pc' = "upload"
    /\ UNCHANGED <<session_state, uploaded_files, pressed, shown, fi, view, sheets,
                   vars_cls, vars_norm, vars_cmp>>

(***************************************************************************)
(* Lines 231-249: the upload loop, one file per step.  The uploader hands  *)
(* every run fresh file objects, so a file can be read in each run.        *)
(***************************************************************************)
CurFile == uploaded_files[fi]

UploadStep(b, logs, sh) ==
    /\ buckets' = b
    /\ LOGS' = logs
    /\ shown' = sh
    /\ fi' = fi + 1
    /\ UNCHANGED <<session_state, uploaded_files, pressed, pc, view, sheets,
                   vars_cls, vars_norm, vars_cmp>>

\* if not kind or not month: the file is passed over before it is read.
IgnoreFile ==
    /\ pc = "upload" /\ fi <= Len(uploaded_files)
    /\ Classify(CurFile.name) = None
    /\ UploadStep(buckets, Append(LOGS, Log("ignored", CurFile.name)),
                  shown \cup {"warning: file ignored"})

\* The failure handled outside the loop: the rest of the batch is dropped.
FileFailsAborts ==
    /\ pc = "upload" /\ fi <= Len(uploaded_files)
    /\ Classify(CurFile.name) # None
    /\ ~CurFile.blob.xlsx \/ ~_prepare_df(CurFile.blob).ok
    /\ buckets' = buckets
    /\ LOGS' = Append(LOGS, Log("read failed", CurFile.name))
    /\ shown' = shown \cup {"exception: file"}
    /\ fi' = Len(uploaded_files) + 1
    /\ UNCHANGED <<session_state, uploaded_files, pressed, pc, view, sheets,
                   vars_cls, vars_norm, vars_cmp>>

\* pd.read_excel raises on bytes that are no workbook, or _prepare_df raises:
\* the except branch shows the exception and logs the failure with the name.
FileFails ==
    /\ pc = "upload" /\ fi <= Len(uploaded_files)
    /\ Classify(CurFile.name) # None
    /\ ~CurFile.blob.xlsx \/ ~_prepare_df(CurFile.blob).ok
    /\ UploadStep(buckets,
                  (IF CurFile.blob.xlsx /\ _prepare_df(CurFile.blob).newcols # {}
                   THEN Append(LOGS, Log("columns renamed", <<>>)) ELSE LOGS)
                    \o <<Log("read failed", CurFile.name)>>,
                  shown \cup {"exception: file"})

\* The file is read, prepared and appended to its (kind, month) bucket.
IngestFile ==
    /\ pc = "upload" /\ fi <= Len(uploaded_files)
    /\ Classify(CurFile.name) # None
    /\ CurFile.blob.xlsx /\ _prepare_df(CurFile.blob).ok
    /\ LET c == Classify(CurFile.name)
           p == _prepare_df(CurFile.blob)
       IN UploadStep([buckets EXCEPT ![c.kind][c.month] = Append(@, p.df)],
                     (IF p.newcols # {} THEN Append(LOGS, Log("columns renamed", <<>>))
                      ELSE LOGS) \o <<Log("recognised", CurFile.name)>>,
                     shown)

UploadDone ==
    /\ pc = "upload" /\ fi > Len(uploaded_files)
    /\ pc' = "doctor"
    /\ UNCHANGED <<session_state, uploaded_files, pressed, buckets, LOGS, shown, fi, view,
                   sheets, vars_cls, vars_norm, vars_cmp>>

(***************************************************************************)
(* Lines 252-361: the two panels and their comparison buttons.             *)
(***************************************************************************)
\* prev_candidates, and max of them or None (0)
PrevOf(months, curr) ==
    LET prev_candidates == {m \in months : m < curr}
    IN IF prev_candidates = {} THEN 0 ELSE SetMax(prev_candidates)

AfterPanel(next) ==
    /\ pc' = next
    /\ UNCHANGED <<session_state, uploaded_files, pressed, buckets, LOGS, fi, sheets,
                   vars_cls, vars_norm, vars_cmp>>

DoctorNoFiles ==
    /\ pc = "doctor"
    /\ MonthsOf(buckets, "doctor") = {}
    /\ shown' = shown \cup {"info: no doctor file"}
    /\ view' = view
    /\ AfterPanel("claim")

\* The select box offers the months of the kind, the largest preselected;
\* the user may have picked any of them.
DoctorSelect ==
    /\ pc = "doctor"
    /\ MonthsOf(buckets, "doctor") # {}
    /\ \E curr \in MonthsOf(buckets, "doctor") :
          LET months == MonthsOf(buckets, "doctor")
          IN /\ view' = [view EXCEPT !.doctor_months = months,
                                     !.curr_default_doc = SetMax(months),
                                     !.curr_doctor = curr,
                                     !.prev_doctor = PrevOf(months, curr)]
             /\ shown' = shown \cup (IF PrevOf(months, curr) = 0
                                     THEN {"warning: no prior doctor month"}
                                     ELSE {"caption: prior doctor month"})
    /\ AfterPanel(IF pressed = "doc" THEN "doctor_run" ELSE "claim")

ClaimNoFiles ==
    /\ pc = "claim"
    /\ MonthsOf(buckets, "claim") = {}
    /\ shown' = shown \cup {"info: no claim file"}
    /\ view' = view
    /\ AfterPanel("export")

ClaimSelect ==
    /\ pc = "claim"
    /\ MonthsOf(buckets, "claim") # {}
    /\ \E curr \in MonthsOf(buckets, "claim") :
          LET months == MonthsOf(buckets, "claim")
          IN /\ view' = [view EXCEPT !.claim_months = months,
                                     !.curr_default_claim = SetMax(months),
                                     !.curr_claim = curr,
                                     !.prev_claim = PrevOf(months, curr)]
             /\ shown' = shown \cup (IF PrevOf(months, curr) = 0
                                     THEN {"warning: no prior claim month"}
                                     ELSE {"caption: prior claim month"})
    /\ AfterPanel(IF pressed = "ins" THEN "ins_run"
                  ELSE IF pressed = "io" THEN "io_run" ELSE "export")

\* The body of a comparison button without its test of DataFrame.empty.
RunCompareNoEmptyTest(kind, by_col, prev, curr) ==
    LET prev_df == _concat_same_month(Get(buckets, kind, prev))
        curr_df == _concat_same_month(Get(buckets, kind, curr))
        prev_g == _group_sum(prev_df, by_col)
        curr_g == _group_sum(curr_df, by_col)
    IN IF ~prev_g.ok \/ ~curr_g.ok
       THEN [stored |-> FALSE, shown |-> {"exception: comparison"},
             logs |-> <<Log("comparison failed", <<>>)>>]
       ELSE IF ~_compare(prev_g.g, curr_g.g).ok
       THEN [stored |-> FALSE, shown |-> {"exception: comparison"},
             logs |-> <<Log("comparison failed", <<>>)>>]
       ELSE [stored |-> TRUE, shown |-> {"table: comparison"}, logs |-> <<>>,
             result |-> [rows |-> _compare(prev_g.g, curr_g.g).rows,
                         months |-> <<prev, curr>>]]

\* The body of a comparison button (the three are alike): what it shows,
\* logs and stores.  _group_sum warns about a missing grouping column
\* before it can raise, and the prior frame is grouped first.
RunCompare(kind, by_col, prev, curr) ==
    LET prev_df == _concat_same_month(Get(buckets, kind, prev))
        curr_df == _concat_same_month(Get(buckets, kind, curr))
        prev_g == _group_sum(prev_df, by_col)
        curr_g == _group_sum(curr_df, by_col)
        warnP == IF prev_g.warn THEN {"warning: grouping column missing"} ELSE {}
        warnC == IF curr_g.warn THEN {"warning: grouping column missing"} ELSE {}
    IN IF IsEmpty(prev_df) \/ IsEmpty(curr_df)
       THEN [stored |-> FALSE, shown |-> {"error: not enough month data"}, logs |-> <<>>]
       ELSE IF ~prev_g.ok
       THEN [stored |-> FALSE, shown |-> warnP \cup {"exception: comparison"},
             logs |-> <<Log("comparison failed", <<>>)>>]
       ELSE IF ~curr_g.ok
       THEN [stored |-> FALSE, shown |-> warnP \cup warnC \cup {"exception: comparison"},
             logs |-> <<Log("comparison failed", <<>>)>>]
       ELSE IF ~_compare(prev_g.g, curr_g.g).ok
       THEN [stored |-> FALSE, shown |-> warnP \cup warnC \cup {"exception: comparison"},
             logs |-> <<Log("comparison failed", <<>>)>>]
       ELSE [stored |-> TRUE, shown |-> warnP \cup warnC \cup {"table: comparison"},
             logs |-> <<>>,
             result |-> [rows |-> _compare(prev_g.g, curr_g.g).rows,
                         months |-> <<prev, curr>>]]

AfterCompare(r, next) ==
    /\ shown' = shown \cup r.shown
    /\ LOGS' = LOGS \o r.logs
    /\ pc' = next
    /\ UNCHANGED <<uploaded_files, pressed, buckets, fi, view, sheets,
                   vars_cls, vars_norm, vars_cmp>>

\* Lines 271-294
DoctorCompare ==
    /\ pc = "doctor_run"
    /\ LET r == RunCompare("doctor", "cheongguchasu", view.prev_doctor, view.curr_doctor)
       IN /\ session_state' = IF r.stored THEN [session_state EXCEPT !.out_doc = r.result]
                              ELSE session_state
          /\ AfterCompare(r, "claim")

\* Lines 312-335
InsCompare ==
    /\ pc = "ins_run"
    /\ LET r == RunCompare("claim", "boheomyuhyeong", view.prev_claim, view.curr_claim)
       IN /\ session_state' = IF r.stored THEN [session_state EXCEPT !.out_ins = r.result]
                              ELSE session_state
          /\ AfterCompare(r, "export")

\* Lines 338-361
IoCompare ==
    /\ pc = "io_run"
    /\ LET r == RunCompare("claim", "ibwon/oerae", view.prev_claim, view.curr_claim)
       IN /\ session_state' = IF r.stored THEN [session_state EXCEPT !.out_io = r.result]
                              ELSE session_state
          /\ AfterCompare(r, "export")

(***************************************************************************)
(* Lines 367-395: the workbook offered for download holds one worksheet    *)
(* for every result the session holds.                                     *)
(***************************************************************************)
Sheet(title, r) == [title |-> title, months |-> r.months, rows |-> r.rows]

\* Only the result of the button pressed in this run is written.
SheetsOfThisRun(ss) ==
    (IF ss.out_doc # None /\ pressed = "doc" THEN {Sheet("doctor", ss.out_doc)} ELSE {})
      \cup (IF ss.out_ins # None /\ pressed = "ins" THEN {Sheet("ins", ss.out_ins)} ELSE {})
      \cup (IF ss.out_io # None /\ pressed = "io" THEN {Sheet("io", ss.out_io)} ELSE {})

SheetsOf(ss) ==
    (IF ss.out_doc # None THEN {Sheet("doctor", ss.out_doc)} ELSE {})
      \cup (IF ss.out_ins # None THEN {Sheet("ins", ss.out_ins)} ELSE {})
      \cup (IF ss.out_io # None THEN {Sheet("io", ss.out_io)} ELSE {})

Export ==
    /\ pc = "export"
    /\ sheets' = SheetsOf(session_state)
    /\ shown' = shown \cup (IF SheetsOf(session_state) = {}
                            THEN {"info: nothing to export"} ELSE {"download button"})
    /\ pc' = "idle"
    /\ UNCHANGED <<session_state, uploaded_files, pressed, buckets, LOGS, fi, view,
                   vars_cls, vars_norm, vars_cmp>>

(***************************************************************************)
(* The specifications.                                                     *)
(***************************************************************************)
Init == IdleClassify /\ IdleNormalize /\ IdleCompare /\ InitApp

Next ==
    \/ Rerun
    \/ DummyButton
    \/ LoadDummy
    \/ IgnoreFile
    \/ FileFails
    \/ IngestFile
    \/ UploadDone
    \/ DoctorNoFiles
    \/ DoctorSelect
    \/ DoctorCompare
    \/ ClaimNoFiles
    \/ ClaimSelect
    \/ InsCompare
    \/ IoCompare
    \/ Export

Spec == Init /\ [][Next]_vars

\* One run's loading of the buckets, from any session and any batch of at
\* most MaxFiles different files of the catalog.
RECURSIVE DistinctSeqs(_)
DistinctSeqs(n) ==
    IF n = 0 THEN {<<>>}
    ELSE UNION { {Append(q, i) : i \in (1..Len(Catalog)) \ Range(q)} :
                 q \in DistinctSeqs(n - 1) }

Batch(q) == [i \in DOMAIN q |-> Catalog[q[i]]]

InitUpload ==
    /\ session_state \in {[NoSession EXCEPT !.dummy = d] : d \in BOOLEAN}
    /\ \E n \in 0..MaxFiles : \E q \in DistinctSeqs(n) : uploaded_files = Batch(q)
    /\ pressed = "none"
    /\ buckets = EmptyBuckets
    /\ LOGS = <<>>
    /\ shown = {}
    /\ pc = "load_dummy"
    /\ fi = 1
    /\ view = NoView
    /\ sheets = {}

InitU == IdleClassify /\ IdleNormalize /\ IdleCompare /\ InitUpload

NextUpload == LoadDummy \/ IgnoreFile \/ FileFails \/ IngestFile \/ UploadDone

SpecUpload == InitU /\ [][NextUpload]_vars

InitC == InitClassify /\ IdleNormalize /\ IdleCompare /\ IdleApp

NextClassify == SkipFile \/ AcceptFile

SpecClassify == InitC /\ [][NextClassify]_vars

InitN == IdleClassify /\ InitNormalize /\ IdleCompare /\ IdleApp

NextNormalize == Normalize

SpecNormalize == InitN /\ [][NextNormalize]_vars

InitM == IdleClassify /\ IdleNormalize /\ InitCompare /\ IdleApp

NextCompare == GroupBoth \/ Compare

SpecCompare == InitM /\ [][NextCompare]_vars

(***************************************************************************)
(* Properties.                                                             *)
(***************************************************************************)
HasDoctorMark(s) == Contains(s, DOCTOR_MARK)

HasClaimMark(s) == Contains(s, CLAIM_MARK) \/ Contains(Lower(s), LATIN_MARK)

\* A month token at position j with n digits: the digits are not preceded
\* by a digit and are followed by blanks and then the month glyph.
IsToken(s, j, n) ==
    /\ j + n - 1 <= Len(s)
    /\ \A q \in j..(j + n - 1) : IsDigit(s[q])
    /\ (j = 1 \/ ~IsDigit(s[j - 1]))
    /\ \E k \in (j + n)..Len(s) : s[k] = WOL /\ \A q \in (j + n)..(k - 1) : IsSpace(s[q])

Tokens(s) == {t \in (1..Len(s)) \X {1, 2} : IsToken(s, t[1], t[2])}

TokenValue(s, t) ==
    IF t[2] = 1 THEN DigitVal(s[t[1]]) ELSE 10 * DigitVal(s[t[1]]) + DigitVal(s[t[1] + 1])

ValidMonths(s) == {TokenValue(s, t) : t \in {u \in Tokens(s) : TokenValue(s, u) \in MONTHS}}

FirstToken(s) == CHOOSE t \in Tokens(s) : \A u \in Tokens(s) : t[1] <= u[1]

ExpectedKind(s) == IF HasDoctorMark(s) THEN "doctor" ELSE "claim"

\* C1 as stated: a filename with a kind marker and some valid month token is
\* filed under (doctor if the doctor marker is there, else claim; that
\* month), and a filename that lacks either is skipped.
C1_AsStated ==
    cls.st \in {"accepted", "skipped"} =>
        IF (HasDoctorMark(name) \/ HasClaimMark(name)) /\ ValidMonths(name) # {}
        THEN /\ cls.st = "accepted"
             /\ cls.kind = ExpectedKind(name)
             /\ cls.month \in ValidMonths(name)
        ELSE cls.st = "skipped"

\* C1 amended: only the first month token of the filename counts.  With a
\* kind marker and a first token of value 1..12 the file is filed under
\* (doctor before claim, that value); with no marker, no token, or a first
\* token outside 1..12 (whatever tokens follow) the file is skipped.
C1_FirstToken ==
    cls.st \in {"accepted", "skipped"} =>
        IF /\ HasDoctorMark(name) \/ HasClaimMark(name)
           /\ Tokens(name) # {}
           /\ TokenValue(name, FirstToken(name)) \in MONTHS
        THEN /\ cls.st = "accepted"
             /\ cls.kind = ExpectedKind(name)
             /\ cls.month = TokenValue(name, FirstToken(name))
        ELSE cls.st = "skipped"

\* A filename with a kind marker and two month tokens of different values
\* was filed under the value of the first one.
C1_Witness ==
    /\ cls.st = "accepted"
    /\ \E u \in Tokens(name) : TokenValue(name, u) # TokenValue(name, FirstToken(name))
    /\ cls.month = TokenValue(name, FirstToken(name))

Targets == {RENAME_CANDIDATES[t].target : t \in 1..Len(RENAME_CANDIDATES)}

AliasesOf(target) ==
    (CHOOSE rc \in Range(RENAME_CANDIDATES) : rc.target = target).aliases

Occurrences(row, c) == Cardinality({i \in 1..Len(row) : row[i] = c})

\* C10: after a call of normalize_columns on distinct trimmed headers, at
\* most one alias per canonical target was renamed, it is the first alias
\* of the synonym list that was present, no rename goes onto a canonical
\* name that was present, the other columns are untouched, and every
\* canonical name occurs at most once; a call on an all-canonical header
\* row, and a call on the output of a previous call, renames nothing.
C10_Normalize ==
    nnorm >= 1 =>
        /\ \A p \in newcols, q \in newcols : p[2] = q[2] => p = q
        /\ \A p \in newcols :
              /\ p[2] \in Targets
              /\ p[2] \notin Range(hdr_in)
              /\ \E k \in 1..Len(AliasesOf(p[2])) :
                    /\ AliasesOf(p[2])[k] = p[1]
                    /\ p[1] \in Range(hdr_in)
                    /\ \A j \in 1..(k - 1) : AliasesOf(p[2])[j] \notin Range(hdr_in)
        /\ Len(hdr) = Len(hdr_in)
        /\ \A i \in 1..Len(hdr) :
              IF \E p \in newcols : p[1] = hdr_in[i]
              THEN <<hdr_in[i], hdr[i]>> \in newcols
              ELSE hdr[i] = hdr_in[i]
        /\ \A t \in Targets : Occurrences(hdr, t) <= 1
        /\ (Range(hdr_in) \subseteq Targets => newcols = {} /\ hdr = hdr_in)
        /\ (nnorm >= 2 => newcols = {} /\ hdr = hdr_in)

\* A header row with two aliases of one target went through a call, which
\* renamed one of them.
C10_Witness ==
    /\ nnorm = 1
    /\ newcols # {}
    /\ \E t \in Targets :
          Cardinality({k \in 1..Len(AliasesOf(t)) : AliasesOf(t)[k] \in Range(hdr_in)}) >= 2

LabelsOf(g) == {g[i].gubun : i \in 1..Len(g)}

\* C4 as stated: the rows of _compare carry exactly the labels of the two
\* grouped inputs, the blank label included, each unchanged and in exactly
\* one row, and a label of one side only has 0 on the other side.
C4_AsStated ==
    cpc = "done" =>
        /\ out.ok
        /\ {out.rows[i].gubun : i \in 1..Len(out.rows)} = LabelsOf(g_prev) \cup LabelsOf(g_curr)
        /\ Len(out.rows) = Cardinality(LabelsOf(g_prev) \cup LabelsOf(g_curr))
        /\ \A i \in 1..Len(out.rows) :
              /\ (out.rows[i].gubun \notin LabelsOf(g_prev) => out.rows[i].prev = 0)
              /\ (out.rows[i].gubun \notin LabelsOf(g_curr) => out.rows[i].curr = 0)

\* The label a result row stands for in the inputs.
SourceLabel(l) == IF IsNum(l) THEN NaN ELSE l

TotalIn(g, l) ==
    SumSeq([i \in 1..Len(g) |-> IF g[i].gubun = l THEN g[i].amt ELSE 0])

\* The marker's number reads back as x: digits in groups of three from the
\* right with a comma between the groups, no leading zero.
ReadsAs(body, x) ==
    /\ body # <<>>
    /\ \A i \in 1..Len(body) :
          IF (Len(body) - i + 1) % 4 = 0 THEN body[i] = "," ELSE IsDigit(body[i])
    /\ DigitsValue(SelectSeq(body, NotComma)) = x
    /\ (body[1] = "0" => Len(body) = 1)

\* C5: every row _compare produces has delta = current - prior (the totals
\* of its label in the two inputs), and a marker given by the sign of
\* delta alone: the dash for 0, the down triangle and |delta| with
\* thousands separators for an increase, the up triangle and |delta| for a
\* decrease; two equal inputs give only zero deltas and dashes.
C5_DeltaMarker ==
    (cpc = "done" /\ out.ok) =>
        /\ \A i \in 1..Len(out.rows) :
              LET r == out.rows[i]
              IN /\ r.prev = TotalIn(g_prev, SourceLabel(r.gubun))
                 /\ r.curr = TotalIn(g_curr, SourceLabel(r.gubun))
                 /\ r.delta = r.curr - r.prev
                 /\ (r.delta = 0 => r.marker = <<DASH>>)
                 /\ (r.delta > 0 => r.marker[1] = DOWN_TRIANGLE
                                    /\ ReadsAs(Tail(r.marker), r.delta))
                 /\ (r.delta < 0 => r.marker[1] = UP_TRIANGLE
                                    /\ ReadsAs(Tail(r.marker), 0 - r.delta))
        /\ (g_prev = g_curr =>
              \A i \in 1..Len(out.rows) :
                  out.rows[i].delta = 0 /\ out.rows[i].marker = <<DASH>>)

\* A comparison produced an increase of more than 999 and a decrease.
C5_Witness ==
    /\ cpc = "done" /\ out.ok
    /\ \E i \in 1..Len(out.rows) : out.rows[i].delta > 999
    /\ \E i \in 1..Len(out.rows) : out.rows[i].delta < 0

\* The positions of the script at which the buckets of the run are loaded
\* up to file fi - 1.
Loading == pc \in {"upload", "doctor", "doctor_run", "claim", "ins_run", "io_run",
                   "export", "idle"}

Classifiable(f) == Classify(f.name) # None

Fails(f) == Classifiable(f) /\ (~f.blob.xlsx \/ ~_prepare_df(f.blob).ok)

Readable(f) == Classifiable(f) /\ f.blob.xlsx /\ _prepare_df(f.blob).ok

\* The buckets and the failure log the loop is to have after the first n
\* files: every readable file is in its bucket, every failing file is in
\* the failure log and nowhere else.
RECURSIVE AfterFiles(_)
AfterFiles(n) ==
    IF n = 0
    THEN [b |-> IF session_state.dummy THEN DUMMY ELSE EmptyBuckets, failed |-> {}]
    ELSE LET before == AfterFiles(n - 1)
             f == uploaded_files[n]
             c == Classify(f.name)
             p == _prepare_df(f.blob)
         IN IF c = None THEN before
            ELSE IF f.blob.xlsx /\ p.ok
            THEN [b |-> [before.b EXCEPT ![c.kind][c.month] = Append(@, p.df)],
                  failed |-> before.failed]
            ELSE [b |-> before.b, failed |-> before.failed \cup {f.name}]

\* C2 as stated: every frame in the buckets has every canonical monetary
\* column and the aggregate column.
C2_AsStated ==
    \A k \in KINDS, m \in MONTHS : \A i \in 1..Len(buckets[k][m]) :
        Range(SUM_COLS) \cup {AGG} \subseteq buckets[k][m][i].cols

\* C3: at every point of the upload loop, each bucket holds (after the demo
\* frames) exactly the frames of the classifiable, readable files handled
\* so far, in order, whatever failed before or after them; a file is
\* logged as failed, with its name, exactly when its reading or
\* preparation failed.
C3_FailureIsLocal ==
    Loading =>
        LET expected == AfterFiles(fi - 1)
        IN /\ buckets = expected.b
           /\ {LOGS[i].file : i \in {j \in 1..Len(LOGS) : LOGS[j].tag = "read failed"}}
                 = expected.failed

\* A batch whose first file failed and whose second file is in its bucket.
C3_Witness ==
    /\ pc = "doctor"
    /\ Len(uploaded_files) = 2
    /\ Fails(uploaded_files[1])
    /\ Readable(uploaded_files[2])
    /\ LET c == Classify(uploaded_files[2].name)
       IN buckets[c.kind][c.month] # <<>>

ReconReports == {"recon: no data", "recon: consistent", "recon: inconsistent"}

\* C6 as stated: a run that has a month in some bucket reports the outcome
\* of the reconciliation of that month (no data, consistent, or
\* inconsistent with its gap), whatever button was pressed.
C6_AsStated ==
    (pc = "idle" /\ MonthsOf(buckets, "doctor") \cup MonthsOf(buckets, "claim") # {}) =>
        \/ shown \cap ReconReports # {}
        \/ \E i \in 1..Len(LOGS) : LOGS[i].tag \in ReconReports

ButtonOf(title) ==
    CASE title = "doctor" -> "doc" [] title = "ins" -> "ins" [] title = "io" -> "io"

ThisRun(kind, by_col, prev, curr) ==
    [rows |-> _compare(_group_sum(_concat_same_month(Get(buckets, kind, prev)), by_col).g,
                       _group_sum(_concat_same_month(Get(buckets, kind, curr)), by_col).g).rows,
     months |-> <<prev, curr>>]

StoredOnlyBy(old, new, at, button, kind, by_col, prev, curr) ==
    /\ (new # old => pc = at /\ pressed = button)
    /\ ((pc = at /\ "table: comparison" \in shown') =>
            new = ThisRun(kind, by_col, prev, curr))
    /\ ((pc = at /\ "table: comparison" \notin shown') => new = old)

SheetShows(title, r) ==
    /\ (r # None <=> \E sh \in sheets' : sh.title = title)
    /\ \A sh \in sheets' : sh.title = title => sh.months = r.months /\ sh.rows = r.rows

NoData(kind, m) ==
    m = 0 \/ \A i \in 1..Len(buckets[kind][m]) : Len(buckets[kind][m][i].rows) = 0

Unavailable(at, kind, prev, curr) ==
    (pc = at /\ (NoData(kind, prev) \/ NoData(kind, curr))) =>
        /\ "error: not enough month data" \in shown'
        /\ "table: comparison" \notin shown'
        /\ session_state' = session_state
        /\ buckets' = buckets

\* C8: a comparison requested while the bucket of its kind has no data for
\* the prior or for the current month (no prior month included) reports
\* that the comparison is unavailable, shows no comparison table, and
\* leaves every stored result and the buckets as they were.
C8_Unavailable ==
    [][ /\ Unavailable("doctor_run", "doctor", view.prev_doctor, view.curr_doctor)
        /\ Unavailable("ins_run", "claim", view.prev_claim, view.curr_claim)
        /\ Unavailable("io_run", "claim", view.prev_claim, view.curr_claim) ]_vars

\* An insurance-type comparison was refused although a prior month exists:
\* its only frame has no row.
C8_Witness ==
    /\ pc = "export"
    /\ pressed = "ins"
    /\ view.prev_claim # 0
    /\ "error: not enough month data" \in shown

ImmediatelyBefore(months, curr) == IF \E m \in months : m < curr THEN curr - 1 ELSE 0

\* C9 as stated: the preselected current month is the largest month of the
\* kind, and the prior month is current - 1, or none when the kind has no
\* earlier month.
C9_AsStated ==
    /\ view.doctor_months # {} =>
          /\ view.curr_default_doc = SetMax(view.doctor_months)
          /\ view.prev_doctor = ImmediatelyBefore(view.doctor_months, view.curr_doctor)
    /\ view.claim_months # {} =>
          /\ view.curr_default_claim = SetMax(view.claim_months)
          /\ view.prev_claim = ImmediatelyBefore(view.claim_months, view.curr_claim)

====
